---- MODULE Spec2Model ----
(***************************************************************************)
(* Model of predb_indexer.py: the binlog consumer that mirrors the         *)
(* `releases` table into the Sphinx real-time index `releases_rt`.         *)
(*                                                                         *)
(* A row snapshot is a Python dict: a function whose DOMAIN is the set of  *)
(* columns the snapshot carries.  None is the value Null.  `size` is held  *)
(* in tenths, so the float 0.0 is the number 0.                            *)
(*                                                                         *)
(* An event is known by its type, its table and the number of rows it     *)
(* still has to yield; the content of a row is chosen when the inner loop  *)
(* binds it, which is the first time the program reads it.  Columns the    *)
(* program never reads (all but the id of a deleted row, all but the       *)
(* status of before_values) are left out of the snapshots.                 *)
(*                                                                         *)
(* Spec is main's loop from the state in which startup() awaits it;        *)
(* FieldSpec takes one row over every combination of its optional columns; *)
(* LiveSpec is the loop under the fairness of its coroutine; RunSpec is    *)
(* the process from the first line of startup() to its end, interrupts     *)
(* included; ReplaySpec is the loop fed a sequence of events and then a    *)
(* suffix of it again.                                                     *)
(***************************************************************************)
EXTENDS Integers, Sequences, FiniteSets, TLC

\* ------------------------------------------------------------- bounds
\* ids range from one below the replay threshold to MaxAbove above it
MaxAbove == 0
\* rows carried by one binlog event
MaxRows == 2
\* events the source commits in one run
MaxEvents == 2
\* events of a delivery that the source may deliver a second time
MaxReplay == 2

\* ---------------------------------------------------------- constants
\* Skip releases with IDs lower than this
last_known_insert == 14130526

Ids == (last_known_insert - 1) .. (last_known_insert + MaxAbove)

\* Python's None
Null == -1
\* markers used only while enumerating snapshots: the column is not a key
Absent == -2
AbsentName == "<absent>"

DeleteRowsEvent == "DeleteRowsEvent"
WriteRowsEvent == "WriteRowsEvent"
UpdateRowsEvent == "UpdateRowsEvent"
EventTypes == {DeleteRowsEvent, WriteRowsEvent, UpdateRowsEvent}

\* tables whose row events the reader yields
Tables == {"releases", "groups"}

EmptyDict == [c \in {} |-> 0]

\* ------------------------------------------------------- dict helpers
\* d.get(k, default)
Get(d, k, default) == IF k \in DOMAIN d THEN d[k] ELSE default

\* x or default, for numbers and None: None and 0 are falsy
Or(x, default) == IF x = Null \/ x = 0 THEN default ELSE x

IsAbsent(c, v) == IF c = "releasename" THEN v = AbsentName ELSE v = Absent

\* the dict holding the columns of r that are not marked absent
ToDict(r) == [c \in {k \in DOMAIN r : ~IsAbsent(k, r[k])} |-> r[c]]

\* all snapshots over per-column value sets D
Snapshots(D) ==
    { ToDict(r) : r \in [id : D.id, releasename : D.releasename,
                         groupid : D.groupid, sectionid : D.sectionid,
                         status : D.status, pretime : D.pretime,
                         files : D.files, size : D.size] }

\* snapshots of which only the key is read (the rows of a delete event)
KeySnapshots(D) == { ToDict([id |-> i]) : i \in D.id }

\* snapshots of which only the status is read (before_values of an update)
StatusSnapshots(D) == { ToDict([status |-> s]) : s \in D.status }

\* the rows an event of the given type can carry
RowsOf(type, D) ==
    IF type = UpdateRowsEvent
    THEN { [before_values |-> b, after_values |-> a] :
               b \in StatusSnapshots(D), a \in Snapshots(D) }
    ELSE IF type = WriteRowsEvent
    THEN { [values |-> v] : v \in Snapshots(D) }
    ELSE { [values |-> v] : v \in KeySnapshots(D) }

\* column values the change stream delivers in the main specification
StreamDomains ==
    [id |-> Ids \cup {Absent}, releasename |-> {AbsentName, "rls"},
     groupid |-> {Absent, 7}, sectionid |-> {3}, status |-> {Absent, 0, 4},
     pretime |-> {9}, files |-> {2}, size |-> {15}]

\* column values of the single row the field specification starts from
FieldDomains ==
    [id |-> Ids, releasename |-> {AbsentName, "rls"},
     groupid |-> {Absent, Null, 7}, sectionid |-> {Absent, Null, 3},
     status |-> {Absent, Null, 1, 4},
     pretime |-> {Absent, Null, 9}, files |-> {Absent, Null, 2},
     size |-> {Absent, Null, 15}]

\* no row bound yet
NoRow == [values |-> EmptyDict, before_values |-> EmptyDict,
          after_values |-> EmptyDict]

\* ------------------------------------------------------------- state
VARIABLES
    index,        \* releases_rt: id -> the nine values of its document
    pc,           \* where the consumer coroutine stands
    binlogevent,  \* the event being iterated: type, table, rows still to come
    row,          \* the row of the event bound by the inner loop
    cmd,          \* the statement handed to execute_sphinx_command for this row
    success,      \* what the index writer returned for this row
    in_use,       \* connections of sphinx_pool that are checked out
    logged_error, \* whether logger.error has been called in this run
    emitted,      \* events the source has committed to the binlog
    consumed,     \* events the reader has yielded to the loop
    calls,        \* index writer calls made for the event being iterated
    connected,    \* what test_sphinx_connection returned
    groups,       \* number of entries of the groups dict
    sections,     \* number of entries of the sections dict
    rows,         \* len(rows) of the result set each reference load fetched
    warned,       \* the reference loads that logged "Failed to fetch ..."
    stream,       \* the BinLogStreamReader: not created, open or closed
    delivered,    \* the rows the source has delivered, in order
    redelivery,   \* the rows the source is still to deliver a second time
    final_S       \* the index as it was when the first delivery ended

\* what startup() sets before it calls main
startup_state == << connected, groups, sections, rows, warned, stream >>

\* the record of a delivery and of its redelivery
replay_state == << delivered, redelivery, final_S >>

vars == << index, pc, binlogevent, row, cmd, success, in_use, logged_error,
          emitted, consumed, calls, startup_state, replay_state >>

\* ------------------------------------------------------- index writer
NoCmd == [op |-> "none", params |-> <<>>]

\* faulty variant: the parameters without `or 0`, so that None reaches the index
add_release_to_sphinx_NoDefaults(release_data) ==
    [op |-> "REPLACE",
     params |-> << release_data["id"],
                   Get(release_data, "releasename", ""),
                   Get(release_data, "releasename", ""),
                   Get(release_data, "groupid", Null),
                   Get(release_data, "sectionid", Null),
                   Get(release_data, "status", Null),
                   Get(release_data, "pretime", Null),
                   Get(release_data, "size", Null),
                   Get(release_data, "files", Null) >>]

\* the REPLACE INTO releases_rt statement and its nine parameters
add_release_to_sphinx(release_data) ==
    [op |-> "REPLACE",
     params |-> << release_data["id"],
                   Get(release_data, "releasename", ""),
                   Get(release_data, "releasename", ""),
                   Or(Get(release_data, "groupid", Null), 0),
                   Or(Get(release_data, "sectionid", Null), 0),
                   Or(Get(release_data, "status", Null), 0),
                   Or(Get(release_data, "pretime", Null), 0),
                   Or(Get(release_data, "size", Null), 0),
                   Or(Get(release_data, "files", Null), 0) >>]

\* faulty variant: the statement is bound to another key
remove_release_OtherKey(release_id) ==
    [op |-> "DELETE", params |-> << release_id - 1 >>]

\* the DELETE FROM releases_rt WHERE id = %s statement
remove_release_from_sphinx(release_id) ==
    [op |-> "DELETE", params |-> << release_id >>]

\* faulty variant: the statement is an INSERT that leaves a present row alone
Executed_InsertIgnore(idx, c) ==
    IF c.op = "REPLACE"
    THEN [k \in DOMAIN idx \cup {c.params[1]} |->
             IF k \in DOMAIN idx THEN idx[k] ELSE c.params]
    ELSE [k \in DOMAIN idx \ {c.params[1]} |-> idx[k]]

\* what the index store does with a statement it executes
Executed(idx, c) ==
    IF c.op = "REPLACE"
    THEN [k \in DOMAIN idx \cup {c.params[1]} |->
             IF k = c.params[1] THEN c.params ELSE idx[k]]
    ELSE [k \in DOMAIN idx \ {c.params[1]} |-> idx[k]]

\* -------------------------------------------------- classifier (main)
\* faulty variant: pretime and files are taken from each other's column
release_data_Swapped(values) ==
    [id |-> values["id"],
     releasename |-> values["releasename"],
     groupid |-> Get(values, "groupid", 0),
     sectionid |-> Get(values, "sectionid", 0),
     status |-> Get(values, "status", 0),
     pretime |-> Get(values, "files", 0),
     files |-> Get(values, "pretime", 0),
     size |-> Get(values, "size", 0)]

\* the release_data dict main builds from a snapshot
release_data(values) ==
    [id |-> values["id"],
     releasename |-> values["releasename"],
     groupid |-> Get(values, "groupid", 0),
     sectionid |-> Get(values, "sectionid", 0),
     status |-> Get(values, "status", 0),
     pretime |-> Get(values, "pretime", 0),
     files |-> Get(values, "files", 0),
     size |-> Get(values, "size", 0)]

Raise == [act |-> "raise", cmd |-> NoCmd]
Continue == [act |-> "continue", cmd |-> NoCmd]
\* no branch of the chain fires: control falls to the end of the try block
Pass == [act |-> "pass", cmd |-> NoCmd]
Call(c) == [act |-> "call", cmd |-> c]

\* building release_data raises KeyError on a missing id or releasename
Upsert(values) ==
    IF "id" \notin DOMAIN values \/ "releasename" \notin DOMAIN values
    THEN Raise
    ELSE Call(add_release_to_sphinx(release_data(values)))

\* faulty variant: the replay threshold is applied to removals as well
Remove_Skips(values) ==
    IF "id" \notin DOMAIN values
    THEN Raise
    ELSE IF values["id"] < last_known_insert
    THEN Continue
    ELSE Call(remove_release_from_sphinx(values["id"]))

Remove(values) ==
    IF "id" \notin DOMAIN values
    THEN Raise
    ELSE Call(remove_release_from_sphinx(values["id"]))

\* faulty variant: the two snapshots are tested the other way round
UpdateBranch_Swapped(before_values, after_values) ==
    IF Get(before_values, "status", Null) = 4
       /\ Get(after_values, "status", Null) # 4
    THEN "deleted"
    ELSE IF Get(after_values, "status", Null) = 4
            /\ Get(before_values, "status", Null) # 4
    THEN "restored"
    ELSE IF Get(after_values, "status", 0) # 4
    THEN "active"
    ELSE "none"

\* faulty variant: the last elif is a plain else
UpdateBranch_Else(before_values, after_values) ==
    IF Get(after_values, "status", Null) = 4
       /\ Get(before_values, "status", Null) # 4
    THEN "deleted"
    ELSE IF Get(before_values, "status", Null) = 4
            /\ Get(after_values, "status", Null) # 4
    THEN "restored"
    ELSE "active"

\* faulty variant: a snapshot without status counts as deleted
UpdateBranch_MissingIsDeleted(before_values, after_values) ==
    IF Get(after_values, "status", 4) = 4
       /\ Get(before_values, "status", 4) # 4
    THEN "deleted"
    ELSE IF Get(before_values, "status", 4) = 4
            /\ Get(after_values, "status", 4) # 4
    THEN "restored"
    ELSE IF Get(after_values, "status", 4) # 4
    THEN "active"
    ELSE "none"

\* the branch of the if/elif/elif chain an update row takes
UpdateBranch(before_values, after_values) ==
    IF Get(after_values, "status", Null) = 4
       /\ Get(before_values, "status", Null) # 4
    THEN "deleted"
    ELSE IF Get(before_values, "status", Null) = 4
            /\ Get(after_values, "status", Null) # 4
    THEN "restored"
    ELSE IF Get(after_values, "status", 0) # 4
    THEN "active"
    ELSE "none"

\* faulty variant: rows with status 4 are not discarded
WriteRow_NoStatusCheck(values) ==
    IF "id" \notin DOMAIN values THEN Raise
    ELSE IF values["id"] < last_known_insert THEN Continue
    ELSE Upsert(values)

\* faulty variant: the replay threshold is not applied
WriteRow_NoSkip(values) ==
    IF "id" \notin DOMAIN values THEN Raise
    ELSE IF Get(values, "status", 0) = 4 THEN Continue
    ELSE Upsert(values)

\* faulty variant: the threshold follows the inserts the stream has delivered,
\* so an insert is skipped when one with its id or a higher id was seen
WriteRow_AdvancesThreshold(values) ==
    IF "id" \notin DOMAIN values THEN Raise
    ELSE IF values["id"] < last_known_insert THEN Continue
    ELSE IF \E i \in DOMAIN delivered :
               /\ delivered[i].type = WriteRowsEvent
               /\ delivered[i].row.values["id"] >= values["id"]
    THEN Continue
    ELSE IF Get(values, "status", 0) = 4 THEN Continue
    ELSE Upsert(values)

\* the WriteRowsEvent branch
WriteRow(values) ==
    IF "id" \notin DOMAIN values THEN Raise
    ELSE IF values["id"] < last_known_insert THEN Continue
    ELSE IF Get(values, "status", 0) = 4 THEN Continue
    ELSE Upsert(values)

\* faulty variant: the replay threshold is applied to updates as well
UpdateRow_Skips(before_values, after_values) ==
    LET branch == UpdateBranch(before_values, after_values) IN
    IF "id" \in DOMAIN after_values /\ after_values["id"] < last_known_insert
    THEN Continue
    ELSE IF branch = "deleted" THEN Remove(after_values)
    ELSE IF branch = "none" THEN Pass
    ELSE Upsert(after_values)

\* the UpdateRowsEvent branch
UpdateRow(before_values, after_values) ==
    LET branch == UpdateBranch(before_values, after_values) IN
    IF branch = "deleted" THEN Remove(after_values)
    ELSE IF branch = "none" THEN Pass
    ELSE Upsert(after_values)

\* the body of the try block for one row of one event
Dispatch(type, r) ==
    IF type = DeleteRowsEvent THEN Remove(r.values)
    ELSE IF type = WriteRowsEvent THEN WriteRow(r.values)
    ELSE UpdateRow(r.before_values, r.after_values)

NoEvent == [type |-> "none", table |-> "none", rows |-> 0]

\* a document left in the index by the bulk load that preceded this run
BulkDoc(id) == << id, "bulk", "bulk", 1, 1, 1, 1, 10, 1 >>

InitIndexes == { [k \in S |-> BulkDoc(k)] : S \in SUBSET Ids }

\* rows a reference table has to return for its load to be accepted
MinGroups == 1000
MinSections == 40

\* the load has not fetched its result set
NotFetched == -1

\* startup() has reached `await main()` and main has created the reader
InMain ==
    /\ connected = "True"
    /\ groups = MinGroups
    /\ sections = MinSections
    /\ rows = [groups |-> MinGroups, sections |-> MinSections]
    /\ warned = {}
    /\ stream = "open"

\* the source delivers every row once
NoReplay ==
    /\ delivered = << >>
    /\ redelivery = << >>
    /\ final_S = << >>

\* the state in which main enters its loop
Init ==
    /\ index \in InitIndexes
    /\ pc = "fetch"
    /\ binlogevent = NoEvent
    /\ row = NoRow
    /\ cmd = NoCmd
    /\ success = "none"
    /\ in_use = 0
    /\ logged_error = FALSE
    /\ emitted = 0
    /\ consumed = 0
    /\ calls = 0
    /\ InMain
    /\ NoReplay

\* the source database commits a row change; the reader can now yield it
Commit ==
    /\ emitted < MaxEvents
    /\ emitted' = emitted + 1
    /\ UNCHANGED << index, pc, binlogevent, row, cmd, success, in_use,
                   logged_error, consumed >>
    /\ UNCHANGED << calls, startup_state, replay_state >>

\* faulty variant: the write is scheduled and not awaited, so the loop takes
\* the next event while the statement is still being executed
NextEvent_Early ==
    /\ pc \in {"fetch", "execute"}
    /\ consumed < emitted
    /\ \E type \in EventTypes, table \in Tables, n \in 1 .. MaxRows :
          /\ binlogevent' = [type |-> type, table |-> table, rows |-> n]
          /\ pc' = IF table # "releases" THEN "fetch" ELSE "rows"
    /\ consumed' = consumed + 1
    /\ row' = NoRow
    /\ cmd' = NoCmd
    /\ success' = "none"
    /\ calls' = 0
    /\ UNCHANGED << index, in_use, logged_error, emitted >>
    /\ UNCHANGED << startup_state, replay_state >>

\* for binlogevent in stream, with the table filter that follows it
NextEvent ==
    /\ pc = "fetch"
    /\ consumed < emitted
    /\ \E type \in EventTypes, table \in Tables, n \in 1 .. MaxRows :
          /\ binlogevent' = [type |-> type, table |-> table, rows |-> n]
          /\ pc' = IF table # "releases" THEN "fetch" ELSE "rows"
    /\ consumed' = consumed + 1
    /\ row' = NoRow
    /\ cmd' = NoCmd
    /\ success' = "none"
    /\ UNCHANGED << index, in_use, logged_error, emitted >>
    /\ calls' = 0
    /\ UNCHANGED << startup_state, replay_state >>

\* for row in binlogevent.rows: bind the next row, one over the column
\* values D, and enter the try block
BindRow(D) ==
    /\ pc = "rows"
    /\ binlogevent.rows > 0
    /\ row' \in RowsOf(binlogevent.type, D)
    /\ binlogevent' = [binlogevent EXCEPT !.rows = @ - 1]
    /\ cmd' = NoCmd
    /\ success' = "none"
    /\ pc' = "try"
    /\ UNCHANGED << index, in_use, logged_error, emitted, consumed >>
    /\ UNCHANGED << calls, startup_state, replay_state >>

NextRow == BindRow(StreamDomains)

\* the rows of the event are exhausted: back to the outer loop
EndOfRows ==
    /\ pc = "rows"
    /\ binlogevent.rows = 0
    /\ pc' = "fetch"
    /\ UNCHANGED << index, binlogevent, row, cmd, success, in_use,
                   logged_error, emitted, consumed >>
    /\ UNCHANGED << calls, startup_state, replay_state >>

\* faulty variant: the second branch of the update chain is an `if`, so a
\* row that leaves status 4 falls through to the third branch as well
TryRow_FallsThrough ==
    /\ pc = "try"
    /\ LET d == Dispatch(binlogevent.type, row) IN
          /\ cmd' = d.cmd
          /\ pc' = IF d.act = "call" THEN "acquire"
                   ELSE IF d.act = "raise" THEN "except"
                   ELSE "rows"
          /\ calls' = IF d.act # "call" THEN calls
                      ELSE IF /\ binlogevent.type = UpdateRowsEvent
                              /\ UpdateBranch(row.before_values,
                                              row.after_values) = "restored"
                      THEN calls + 2
                      ELSE calls + 1
    /\ UNCHANGED << index, binlogevent, row, success, in_use, logged_error,
                   emitted, consumed >>
    /\ UNCHANGED << startup_state, replay_state >>

\* the try block up to the index writer call, a continue or a KeyError
TryRow ==
    /\ pc = "try"
    /\ LET d == Dispatch(binlogevent.type, row) IN
          /\ cmd' = d.cmd
          /\ pc' = IF d.act = "call" THEN "acquire"
                   ELSE IF d.act = "raise" THEN "except"
                   ELSE "rows"
          /\ calls' = IF d.act = "call" THEN calls + 1 ELSE calls
    /\ UNCHANGED << index, binlogevent, row, success, in_use, logged_error,
                   emitted, consumed >>
    /\ UNCHANGED << startup_state, replay_state >>

\* execute_sphinx_command: sphinx_pool.acquire(), which may fail
Acquire ==
    /\ pc = "acquire"
    /\ \/ /\ in_use' = in_use + 1
          /\ pc' = "execute"
          /\ UNCHANGED << success, logged_error >>
       \/ /\ success' = "False"
          /\ logged_error' = TRUE
          /\ pc' = "rows"
          /\ UNCHANGED in_use
    /\ UNCHANGED << index, binlogevent, row, cmd, emitted, consumed >>
    /\ UNCHANGED << calls, startup_state, replay_state >>

\* faulty variant: no try/except, the execution error reaches the caller
execute_sphinx_command_Raises ==
    /\ pc = "execute"
    /\ \/ /\ index' = Executed(index, cmd)
          /\ success' = "True"
          /\ pc' = "rows"
       \/ /\ success' = "raised"
          /\ pc' = "except"
          /\ UNCHANGED index
    /\ in_use' = in_use - 1
    /\ UNCHANGED << binlogevent, row, cmd, logged_error, emitted, consumed >>
    /\ UNCHANGED << calls, startup_state, replay_state >>

\* faulty variant: the connection is released after a successful execute only
execute_sphinx_command_Leaks ==
    /\ pc = "execute"
    /\ \/ /\ index' = Executed(index, cmd)
          /\ success' = "True"
          /\ in_use' = in_use - 1
          /\ UNCHANGED logged_error
       \/ /\ success' = "False"
          /\ logged_error' = TRUE
          /\ UNCHANGED << index, in_use >>
    /\ pc' = "rows"
    /\ UNCHANGED << binlogevent, row, cmd, emitted, consumed >>
    /\ UNCHANGED << calls, startup_state, replay_state >>

\* execute_sphinx_command: cur.execute(query, params), release, return
execute_sphinx_command ==
    /\ pc = "execute"
    /\ \/ /\ index' = Executed(index, cmd)
          /\ success' = "True"
          /\ UNCHANGED logged_error
       \/ /\ success' = "False"
          /\ logged_error' = TRUE
          /\ UNCHANGED index
    /\ in_use' = in_use - 1
    /\ pc' = "rows"
    /\ UNCHANGED << binlogevent, row, cmd, emitted, consumed >>
    /\ UNCHANGED << calls, startup_state, replay_state >>

\* faulty variant: the handler logs and re-raises, which ends main
ExceptHandler_Reraise ==
    /\ pc = "except"
    /\ logged_error' = TRUE
    /\ pc' = "exit"
    /\ UNCHANGED << index, binlogevent, row, cmd, success, in_use, emitted, consumed >>
    /\ UNCHANGED << calls, startup_state, replay_state >>

\* except Exception: log the event and the row, continue with the next row
ExceptHandler ==
    /\ pc = "except"
    /\ logged_error' = TRUE
    /\ pc' = "rows"
    /\ UNCHANGED << index, binlogevent, row, cmd, success, in_use, emitted, consumed >>
    /\ UNCHANGED << calls, startup_state, replay_state >>

\* the steps of the consumer coroutine
main ==
    \/ NextEvent
    \/ NextRow
    \/ EndOfRows
    \/ TryRow
    \/ Acquire
    \/ execute_sphinx_command
    \/ ExceptHandler

Next == Commit \/ main

Spec == Init /\ [][Next]_vars

\* ------------------------------------------- field specification
\* One row, with every combination of missing, null and set optional
\* columns, is bound by the inner loop and taken through the try block.
FieldInit ==
    /\ index \in { [k \in S |-> BulkDoc(k)] : S \in {{}, Ids} }
    /\ pc = "try"
    /\ \E type \in EventTypes :
          /\ binlogevent = [type |-> type, table |-> "releases", rows |-> 0]
          /\ row \in RowsOf(type, FieldDomains)
    /\ cmd = NoCmd
    /\ success = "none"
    /\ in_use = 0
    /\ logged_error = FALSE
    /\ emitted = 1
    /\ consumed = 1
    /\ calls = 0
    /\ InMain
    /\ NoReplay

FieldNext ==
    \/ TryRow
    \/ Acquire
    \/ execute_sphinx_command
    \/ ExceptHandler
    \/ EndOfRows

FieldSpec == FieldInit /\ [][FieldNext]_vars

\* ------------------------------------------------ fairness
\* The consumer is one coroutine that is always scheduled: every await
\* of an index write returns, and the blocking reader yields an event
\* once the source has committed one.
\* The liveness specification starts from an empty index and binds rows
\* over fewer column values: rows that raise (no id, no releasename), rows
\* that are skipped and rows that are written, each of which may fail.
LiveDomains == [StreamDomains EXCEPT !.groupid = {7}, !.status = {0, 4}]

LiveInit == Init /\ index = EmptyDict

LiveRow == BindRow(LiveDomains)

LiveMain ==
    \/ NextEvent
    \/ LiveRow
    \/ EndOfRows
    \/ TryRow
    \/ Acquire
    \/ execute_sphinx_command
    \/ ExceptHandler

LiveNext == Commit \/ LiveMain

LiveSpec == LiveInit /\ [][LiveNext]_vars /\ WF_vars(LiveMain)

\* ------------------------------------------------ the whole process
\* startup() from its first line, main from the creation of the reader to
\* stream.close(), and the interrupt and the errors that end the process.
\* The positions a finished process is left in
Final == {"aborted", "fatal", "interrupted", "done"}

\* the positions of main's loop
InLoop == {"fetch", "rows", "try", "acquire", "execute", "except"}

RunInit ==
    /\ index \in InitIndexes
    /\ pc = "start"
    /\ binlogevent = NoEvent
    /\ row = NoRow
    /\ cmd = NoCmd
    /\ success = "none"
    /\ in_use = 0
    /\ logged_error = FALSE
    /\ emitted = 0
    /\ consumed = 0
    /\ calls = 0
    /\ connected = "none"
    /\ groups = 0
    /\ sections = 0
    /\ rows = [groups |-> NotFetched, sections |-> NotFetched]
    /\ warned = {}
    /\ stream = "none"
    /\ NoReplay

\* an exception that leaves startup(): except Exception logs "Fatal error"
Fatal ==
    /\ pc' = "fatal"
    /\ logged_error' = TRUE

\* init_sphinx_pool: create_pool connects, or raises
init_sphinx_pool ==
    /\ pc = "start"
    /\ \/ pc' = "probe" /\ UNCHANGED logged_error
       \/ Fatal
    /\ UNCHANGED << index, binlogevent, row, cmd, success, in_use, emitted,
                   consumed, calls, startup_state, replay_state >>

\* faulty variant: the result of the probe is logged and not tested
test_sphinx_connection_Unchecked ==
    /\ pc = "probe"
    /\ \/ connected' = "True" /\ UNCHANGED logged_error
       \/ connected' = "False" /\ logged_error' = TRUE
    /\ pc' = "load_groups"
    /\ UNCHANGED << index, binlogevent, row, cmd, success, in_use, emitted,
                   consumed, calls, groups, sections, rows, warned, stream,
                   replay_state >>

\* test_sphinx_connection and the test startup() makes of its result
test_sphinx_connection ==
    /\ pc = "probe"
    /\ \/ /\ connected' = "True"
          /\ pc' = "load_groups"
          /\ UNCHANGED logged_error
       \/ /\ connected' = "False"
          /\ pc' = "aborted"
          /\ logged_error' = TRUE
    /\ UNCHANGED << index, binlogevent, row, cmd, success, in_use, emitted,
                   consumed, calls, groups, sections, rows, warned, stream,
                   replay_state >>

\* result sets a reference table of the given minimum can return
ResultSizes(minimum) == {0, minimum - 1, minimum}

\* fetch_all_groups: the pool cannot be created, or the rows are fetched
\* and cached unless they are fewer than 1000
fetch_all_groups ==
    /\ pc = "load_groups"
    /\ \/ /\ \E n \in ResultSizes(MinGroups) :
                /\ rows' = [rows EXCEPT !.groups = n]
                /\ IF n < MinGroups
                   THEN warned' = warned \cup {"groups"} /\ UNCHANGED groups
                   ELSE groups' = n /\ UNCHANGED warned
          /\ pc' = "load_sections"
          /\ UNCHANGED logged_error
       \/ /\ Fatal
          /\ UNCHANGED << groups, rows, warned >>
    /\ UNCHANGED << index, binlogevent, row, cmd, success, in_use, emitted,
                   consumed, calls, connected, sections, stream,
                   replay_state >>

\* fetch_all_sections: the same, with a minimum of 40
fetch_all_sections ==
    /\ pc = "load_sections"
    /\ \/ /\ \E n \in ResultSizes(MinSections) :
                /\ rows' = [rows EXCEPT !.sections = n]
                /\ IF n < MinSections
                   THEN warned' = warned \cup {"sections"} /\ UNCHANGED sections
                   ELSE sections' = n /\ UNCHANGED warned
          /\ pc' = "gate"
          /\ UNCHANGED logged_error
       \/ /\ Fatal
          /\ UNCHANGED << sections, rows, warned >>
    /\ UNCHANGED << index, binlogevent, row, cmd, success, in_use, emitted,
                   consumed, calls, connected, groups, stream, replay_state >>

\* faulty variant: startup goes on when at least one dict was cached
CachesLoaded_Either == groups # 0 \/ sections # 0

\* the negation of `not groups or not sections`
CachesLoaded == groups # 0 /\ sections # 0

\* if not groups or not sections: log and return
Gate ==
    /\ pc = "gate"
    /\ IF CachesLoaded
       THEN pc' = "open" /\ UNCHANGED logged_error
       ELSE pc' = "aborted" /\ logged_error' = TRUE
    /\ UNCHANGED << index, binlogevent, row, cmd, success, in_use, emitted,
                   consumed, calls, startup_state, replay_state >>

\* await main(): the reader is created and the loop is entered
OpenStream ==
    /\ pc = "open"
    /\ stream' = "open"
    /\ pc' = "fetch"
    /\ UNCHANGED << index, binlogevent, row, cmd, success, in_use,
                   logged_error, emitted, consumed, calls, connected, groups,
                   sections, rows, warned, replay_state >>

\* the reader yields no further event (the source has closed the stream):
\* the loop ends, stream.close() is called and startup() returns
StreamEnd ==
    /\ pc = "fetch"
    /\ stream' = "closed"
    /\ pc' = "done"
    /\ UNCHANGED << index, binlogevent, row, cmd, success, in_use,
                   logged_error, emitted, consumed, calls, connected, groups,
                   sections, rows, warned, replay_state >>

\* the connection to the source fails while the reader waits for an event:
\* the exception leaves main and startup()
StreamFails ==
    /\ pc = "fetch"
    /\ Fatal
    /\ UNCHANGED << index, binlogevent, row, cmd, success, in_use, emitted,
                   consumed, calls, startup_state, replay_state >>

\* SIGINT: KeyboardInterrupt is raised wherever the process stands; it is
\* not an Exception, so no handler of main or of the index writer sees it,
\* and run_until_complete passes it to `except KeyboardInterrupt`.  A
\* statement that was being executed may or may not have been applied.
Interrupt ==
    /\ pc \notin Final
    /\ pc' = "interrupted"
    /\ IF pc = "execute"
       THEN index' \in {index, Executed(index, cmd)}
       ELSE UNCHANGED index
    /\ UNCHANGED << binlogevent, row, cmd, success, in_use, logged_error,
                   emitted, consumed, calls, startup_state, replay_state >>

\* the steps of startup() before main
startup ==
    \/ init_sphinx_pool
    \/ test_sphinx_connection
    \/ fetch_all_groups
    \/ fetch_all_sections
    \/ Gate
    \/ OpenStream

RunNext ==
    \/ Commit
    \/ startup
    \/ LiveMain
    \/ StreamEnd
    \/ StreamFails
    \/ Interrupt

RunSpec == RunInit /\ [][RunNext]_vars

\* ------------------------------------------------ redelivery
\* The source delivers a sequence S of events and then delivers a suffix of
\* S again, in order; each event carries one row, and every index write
\* succeeds.  One step takes one event through the loop: the body of the try
\* block, and the execution of the statement it hands to the index writer.
ReplayDomains ==
    [StreamDomains EXCEPT !.id = Ids, !.releasename = {"rls"},
                          !.groupid = {7}, !.status = {0, 1, 4}]

\* the index after a row has been processed and its statement executed
Process(idx, type, r) ==
    LET d == Dispatch(type, r) IN
    IF d.act = "call" THEN Executed(idx, d.cmd) ELSE idx

\* the loop takes one event of one row from the stream and processes it
Handle(type, r) ==
    LET d == Dispatch(type, r) IN
    /\ binlogevent' = [type |-> type, table |-> "releases", rows |-> 0]
    /\ row' = r
    /\ cmd' = d.cmd
    /\ calls' = IF d.act = "call" THEN 1 ELSE 0
    /\ success' = IF d.act = "call" THEN "True" ELSE "none"
    /\ logged_error' = (logged_error \/ d.act = "raise")
    /\ index' = Process(index, type, r)
    /\ consumed' = consumed + 1
    /\ UNCHANGED << pc, in_use, startup_state >>

\* the source commits an event and delivers it for the first time
Deliver ==
    /\ pc = "fetch"
    /\ final_S = << >>
    /\ Len(delivered) < MaxReplay
    /\ \E type \in EventTypes :
          \E r \in RowsOf(type, ReplayDomains) :
              /\ Handle(type, r)
              /\ delivered' = Append(delivered, [type |-> type, row |-> r])
    /\ emitted' = emitted + 1
    /\ UNCHANGED << redelivery, final_S >>

\* the source goes back to an earlier event of the sequence it has delivered
Rewind ==
    /\ pc = "fetch"
    /\ final_S = << >>
    /\ \E k \in 1 .. Len(delivered) :
          redelivery' = SubSeq(delivered, k, Len(delivered))
    /\ final_S' = << index >>
    /\ UNCHANGED << index, pc, binlogevent, row, cmd, success, in_use,
                   logged_error, emitted, consumed, calls, startup_state,
                   delivered >>

\* the source delivers the next event of the suffix a second time
Redeliver ==
    /\ pc = "fetch"
    /\ redelivery # << >>
    /\ Handle(Head(redelivery).type, Head(redelivery).row)
    /\ redelivery' = Tail(redelivery)
    /\ UNCHANGED << emitted, delivered, final_S >>

ReplayNext == Deliver \/ Rewind \/ Redeliver

ReplaySpec == Init /\ [][ReplayNext]_vars

\* =========================================================== claims
\* vocabulary of the claims, read off the row the loop has bound
IsDelete == binlogevent.type = DeleteRowsEvent
IsInsert == binlogevent.type = WriteRowsEvent
IsUpdate == binlogevent.type = UpdateRowsEvent

\* the snapshot that keys the document: values, or after_values
Snapshot == IF IsUpdate THEN row.after_values ELSE row.values
HasKey == "id" \in DOMAIN Snapshot
Key == Snapshot["id"]
HasName == "releasename" \in DOMAIN Snapshot

\* a field of a snapshot with the documented default (0, and 0.0 for size)
\* standing in for a missing or null column
Field(d, c) == IF c \notin DOMAIN d THEN 0 ELSE IF d[c] = Null THEN 0 ELSE d[c]
AfterStatus == Field(Snapshot, "status")
BeforeStatus == Field(row.before_values, "status")

\* the document of a snapshot: id, name (twice: full text and attribute),
\* groupId, sectionId, status, preTime, size, fileCount
Document(d) ==
    << d["id"], d["releasename"], d["releasename"], Field(d, "groupid"),
       Field(d, "sectionid"), Field(d, "status"), Field(d, "pretime"),
       Field(d, "size"), Field(d, "files") >>

\* the bound row has been taken through the try block
Processed == pc \in {"rows", "fetch"} /\ row # NoRow
Written == success = "True"

\* C1 as claimed: after a row with id k has been processed (it is then the
\* last observed row with that id), document k exists iff the row is not a
\* deleted row, its status is not 4 and k >= replaySkipThreshold.  Rows that
\* raised or whose write failed, and documents the bulk load left in the
\* index, are left out.
C1_AsClaimed ==
    (/\ Processed /\ HasKey /\ (IsDelete \/ HasName) /\ success # "False"
     /\ Key \in DOMAIN index => index[Key] # BulkDoc(Key))
        => ((Key \in DOMAIN index)
               <=> (~IsDelete /\ AfterStatus # 4 /\ Key >= last_known_insert))

\* the index writer reported a failure for the bound row
Failed == success = "False"

\* a row the pipeline upserts: an insert at or above the threshold, or any
\* update, with an id, a releasename and a status other than 4
UpsertRow ==
    /\ HasKey /\ HasName
    /\ IsInsert \/ IsUpdate
    /\ AfterStatus # 4
    /\ IsInsert => Key >= last_known_insert

\* a row the pipeline removes: a delete, or an update from a status other
\* than 4 to status 4, with an id
RemoveRow ==
    /\ HasKey
    /\ IsDelete \/ (IsUpdate /\ AfterStatus = 4 /\ BeforeStatus # 4)

C1_Step ==
    /\ (Processed' /\ UpsertRow' /\ ~Failed') => Key' \in DOMAIN index'
    /\ (Processed' /\ RemoveRow' /\ ~Failed') => Key' \notin DOMAIN index'
    /\ \A id \in Ids :
          ((id \in DOMAIN index') # (id \in DOMAIN index))
              => Processed' /\ (UpsertRow' \/ RemoveRow') /\ id = Key'

\* C1 amended: after a row with id k is processed, document k exists if the
\* row is an insert with k >= replaySkipThreshold and status # 4 or an
\* update with after.status # 4 whatever k is, and is absent if the row is a
\* delete or an update from a status other than 4 to status 4, unless the
\* index writer reported a failure; the existence of a document changes in
\* no other step (inserts below the threshold or with status 4, updates from
\* 4 to 4, rows that raise and failed writes leave it as it was).
C1_Amended == [][C1_Step]_vars

\* an update below the threshold has put its document into the index
C1_Witness ==
    /\ Processed /\ UpsertRow /\ IsUpdate
    /\ Key < last_known_insert
    /\ Key \in DOMAIN index
    /\ index[Key] = Document(Snapshot)

LowInsert == IsInsert /\ HasKey /\ Key < last_known_insert

\* C3: while an insert row with id < replaySkipThreshold is the bound row,
\* no statement is handed to the index writer, the writer is never entered
\* and the index does not change, whatever the other columns are.
C3_NoMutation ==
    [][LowInsert' => (/\ index' = index
                      /\ cmd' = NoCmd
                      /\ success' = "none"
                      /\ pc' \notin {"acquire", "execute"})]_vars

\* a well-formed insert below the threshold was processed and left no document
C3_Witness ==
    /\ Processed /\ LowInsert /\ HasName /\ AfterStatus # 4
    /\ "groupid" \in DOMAIN Snapshot
    /\ Key \notin DOMAIN index

Into4 == BeforeStatus # 4 /\ AfterStatus = 4
OutOf4 == BeforeStatus = 4 /\ AfterStatus # 4
StaysActive == BeforeStatus # 4 /\ AfterStatus # 4

\* an update row is bound; Fired is the branch main takes for it
UpdateSeen == IsUpdate /\ row # NoRow
Fired == UpdateBranch(row.before_values, row.after_values)

\* C7 as claimed: for every update row exactly one of the three branches
\* fires, the conditions being exclusive and exhaustive.
C7_AsClaimed ==
    UpdateSeen
        => /\ Cardinality({b \in {"deleted", "restored", "active"} : Fired = b}) = 1
           /\ Into4 \/ OutOf4 \/ StaysActive

\* C7 amended: for every update row at most one branch fires, each exactly
\* under its own condition (the conditions exclude one another), and none
\* fires exactly when before.status = 4 and after.status = 4: the row then
\* hands no statement to the index writer.
C7_Amended ==
    UpdateSeen
        => /\ (Fired = "deleted") <=> Into4
           /\ (Fired = "restored") <=> OutOf4
           /\ (Fired = "active") <=> StaysActive
           /\ (Fired = "none") <=> (BeforeStatus = 4 /\ AfterStatus = 4)
           /\ (Processed /\ HasKey /\ HasName)
                 => cmd.op = (IF Into4 THEN "DELETE"
                              ELSE IF OutOf4 \/ StaysActive THEN "REPLACE"
                              ELSE "none")

\* an update from status 4 to status 4 was processed without a statement,
\* and the document that was in the index is still there
C7_Witness ==
    /\ Processed /\ IsUpdate /\ HasKey /\ HasName
    /\ BeforeStatus = 4 /\ AfterStatus = 4
    /\ cmd = NoCmd /\ success = "none"
    /\ Key \in DOMAIN index

\* C8: no statement handed to the index writer upserts a row with status 4,
\* and no document of the index has status 4.
C8_NoDeletedDocs ==
    /\ cmd.op = "REPLACE" => cmd.params[6] # 4
    /\ \A k \in DOMAIN index : index[k][6] # 4

\* an insert at the threshold with status 4 was discarded
C8_Witness ==
    /\ Processed /\ IsInsert /\ HasKey /\ HasName
    /\ Key >= last_known_insert
    /\ AfterStatus = 4
    /\ cmd = NoCmd
    /\ Key \notin DOMAIN index

\* the n-th event has been taken from the stream and all its rows processed
Handled(n) == consumed > n \/ (consumed = n /\ pc = "fetch")

\* C9: every event the source commits is eventually taken from the stream
\* and processed to its last row, whatever rows before it raised or failed
\* to be written.
C9_KeepsConsuming ==
    \A n \in 1 .. MaxEvents : (emitted >= n) ~> Handled(n)

\* an error was logged for an earlier row, and a later row of the last event
\* has been written; the loop is back at the stream
C9_Witness ==
    /\ logged_error
    /\ pc = "fetch" /\ consumed = MaxEvents
    /\ Processed /\ Written

\* C10: a step of the index writer never reaches the except handler of its
\* caller; when it fails it returns False to main and leaves the index as it
\* was.
C10_FailureIsReturned ==
    [][(pc \in {"acquire", "execute"} /\ pc' # pc)
          => /\ pc' \in {"execute", "rows"}
             /\ pc' = "rows" => success' \in {"True", "False"}
             /\ success' # "True" => index' = index]_vars

\* an upsert failed in execute: False came back, the connection is released
\* and there is no document
C10_Witness ==
    /\ Processed /\ Failed /\ logged_error
    /\ cmd.op = "REPLACE"
    /\ in_use = 0
    /\ Key \notin DOMAIN index
\* the minimum of a reference table and the size of the dict cached for it
Minimum(t) == IF t = "groups" THEN MinGroups ELSE MinSections
Cached(t) == IF t = "groups" THEN groups ELSE sections

\* the load of reference table t fetched fewer rows than its minimum
ShortLoad(t) == rows[t] # NotFetched /\ rows[t] < Minimum(t)

\* main has not been called: no reader, no event taken, no statement made
NotEntered ==
    /\ pc \notin InLoop \cup {"open", "done"}
    /\ stream = "none"
    /\ consumed = 0
    /\ binlogevent = NoEvent
    /\ calls = 0 /\ cmd = NoCmd /\ success = "none" /\ in_use = 0

\* C11: once a reference load has fetched fewer rows than its minimum, its
\* dict is empty and the failure has been logged, and the process never
\* enters main: the reader is not created and no event is taken from it;
\* when startup() reaches its test of the two dicts it returns.
C11_ShortLoadAborts ==
    \A t \in {"groups", "sections"} :
        ShortLoad(t)
            => /\ Cached(t) = 0
               /\ t \in warned
               /\ NotEntered
               /\ pc \in {"load_sections", "gate"} \cup Final

\* the groups load was one row short and the sections load was accepted:
\* startup() has returned although the source has committed events
C11_Witness ==
    /\ pc = "aborted"
    /\ rows["groups"] = MinGroups - 1 /\ groups = 0
    /\ rows["sections"] = MinSections /\ sections = MinSections
    /\ warned = {"groups"}
    /\ emitted > 0 /\ consumed = 0

\* C12: main is entered only after the probe has returned True; once the
\* probe has returned False startup() has returned: no reference table is
\* fetched, the reader is not created and no statement is handed to the
\* index writer.
C12_ProbeGates ==
    /\ (pc \in InLoop \cup {"open", "done"} \/ stream # "none")
          => connected = "True"
    /\ connected = "False"
          => /\ pc = "aborted"
             /\ rows = [groups |-> NotFetched, sections |-> NotFetched]
             /\ groups = 0 /\ sections = 0 /\ warned = {}
             /\ logged_error
             /\ NotEntered

\* the probe failed and the process has ended with every committed event
\* still unread
C12_Witness ==
    /\ connected = "False"
    /\ pc = "aborted"
    /\ emitted = MaxEvents /\ consumed = 0
    /\ stream = "none"

\* C13 as claimed: a process that has ended after main was entered, by an
\* interrupt or by the end of the stream, has closed the reader and has
\* left no row of the event in flight unprocessed.
C13_AsClaimed ==
    (pc \in {"interrupted", "done"} /\ stream # "none")
        => /\ stream = "closed"
           /\ binlogevent.rows = 0
           /\ in_use = 0
\* C14: after an upsert has been executed, executing the same statement a
\* second time leaves the index as it is; the index holds one document for
\* the id, which is the statement's nine values whatever was there before,
\* and the documents of the other ids are as the first execution found them.
C14_UpsertIdempotent ==
    (Processed /\ Written /\ cmd.op = "REPLACE")
        => /\ Executed(index, cmd) = index
           /\ cmd = add_release_to_sphinx(release_data(Snapshot))
           /\ Key \in DOMAIN index /\ index[Key] = cmd.params
           /\ \A k \in DOMAIN index \ {Key} : index[k] = BulkDoc(k)

\* an upsert has overwritten the document the index held for its id and has
\* left the document of the other id alone
C14_Witness ==
    /\ Processed /\ Written /\ cmd.op = "REPLACE"
    /\ DOMAIN index = Ids
    /\ index[Key] = Document(Snapshot) /\ index[Key] # BulkDoc(Key)
    /\ Executed(index, cmd) = index

\* C15 as claimed: the rows of one event make at most one index writer call
\* between them.
C15_AsClaimed == calls <= 1

C15_Step ==
    /\ \/ calls' \in {calls, calls + 1}
       \/ calls' = 0 /\ consumed' = consumed + 1
    /\ calls' = calls + 1 => (pc = "try" /\ pc' = "acquire" /\ cmd' # NoCmd)
    /\ (pc' \in {"acquire", "execute"} /\ pc \notin {"acquire", "execute"})
          => calls' = calls + 1
    /\ (pc' = "try" /\ pc # "try")
          => (pc = "rows" /\ binlogevent'.rows = binlogevent.rows - 1)

\* C15 amended: each row snapshot of an event makes at most one index writer
\* call: the writer is entered only from the try block of a row, once, and
\* the try block is entered once for each row the event carries; an event of
\* n rows makes between zero and n calls.
C15_Amended == [][C15_Step]_vars

\* both rows of a two-row event have been written
C15_Witness ==
    /\ Processed /\ Written
    /\ binlogevent.rows = 0
    /\ calls = 2

\* a snapshot with its id replaced
SetId(d, i) == [c \in DOMAIN d |-> IF c = "id" THEN i ELSE d[c]]

\* the bound row with the id of its keying snapshot moved to the threshold
AtThreshold ==
    IF IsUpdate
    THEN [before_values |-> row.before_values,
          after_values |-> SetId(row.after_values, last_known_insert)]
    ELSE [values |-> SetId(row.values, last_known_insert)]

\* the bound row has been through the body of the try block
Dispatched == row # NoRow /\ pc # "try"

\* C16: an update or delete row whose id is below the replay threshold hands
\* the index writer the statement the same row would hand it with its id at
\* the threshold, but for the id: the DELETE of its id, the REPLACE of its
\* after snapshot, or none.
C16_ThresholdInsertsOnly ==
    ((IsUpdate \/ IsDelete) /\ HasKey /\ Key < last_known_insert /\ Dispatched)
        => LET same == Dispatch(binlogevent.type, AtThreshold).cmd IN
           /\ cmd.op = same.op
           /\ cmd.op # "none"
                 => cmd.params = [same.params EXCEPT ![1] = Key]
           /\ (IsDelete \/ Into4) => cmd = remove_release_from_sphinx(Key)
           /\ (IsUpdate /\ AfterStatus # 4 /\ HasName)
                 => cmd.op = "REPLACE" /\ cmd.params = Document(Snapshot)

\* an update into status 4 below the threshold has removed its document
C16_Witness ==
    /\ Processed /\ IsUpdate /\ HasKey /\ Written
    /\ Key < last_known_insert
    /\ Into4
    /\ cmd = remove_release_from_sphinx(Key)
    /\ Key \notin DOMAIN index

\* C17: the loop takes the next event only when it stands at the stream
\* with no index writer call outstanding, and the index changes only by the
\* execution of the statement of the bound row of the event in flight: the
\* statements reach the index store one at a time, in the order of the
\* events and of their rows.
C17_SourceOrder ==
    [][/\ consumed' # consumed
             => (pc = "fetch" /\ in_use = 0 /\ consumed' = consumed + 1)
       /\ index' # index
             => /\ pc = "execute" /\ in_use = 1
                /\ consumed' = consumed
                /\ cmd = Dispatch(binlogevent.type, row).cmd
                /\ index' = Executed(index, cmd)
                /\ success' = "True"]_vars

\* the last event has made one call, which was written, and the index holds
\* a second document, written for an earlier row of the stream
C17_Witness ==
    /\ consumed = MaxEvents /\ pc = "fetch"
    /\ Processed /\ Written /\ calls = 1 /\ cmd.op = "REPLACE"
    /\ \E k \in DOMAIN index : k # Key /\ index[k] # BulkDoc(k)

\* C18: at most one connection of the pool is checked out, and only while a
\* statement is being executed; when the index writer has returned, with
\* True or with False, and between rows and events, none is.
C18_OneConnection ==
    /\ in_use \in {0, 1}
    /\ in_use = 1 <=> pc = "execute"
    /\ success \in {"True", "False"} => in_use = 0
    /\ pc \in {"fetch", "rows", "try"} => in_use = 0

\* the second event's removal has failed, the document is still there and
\* no connection is held
C18_Witness ==
    /\ Processed /\ Failed /\ IsDelete
    /\ consumed = MaxEvents
    /\ Key \in DOMAIN index
    /\ in_use = 0

\* a snapshot with status 0 where it carries no status
StatusOr0(d) ==
    [c \in DOMAIN d \cup {"status"} |->
        IF c \in DOMAIN d THEN d[c] ELSE 0]

\* the bound row with status 0 in each snapshot that carries no status
WithStatus ==
    IF IsUpdate
    THEN [before_values |-> StatusOr0(row.before_values),
          after_values |-> StatusOr0(row.after_values)]
    ELSE IF IsInsert THEN [values |-> StatusOr0(row.values)]
    ELSE row

NoStatus(d) == "status" \notin DOMAIN d

\* C19: a row is handled as the same row with status 0 in the snapshots that
\* carry no status: an insert without status that is not skipped for its id
\* is upserted with status 0, an update whose before snapshot has no status
\* and whose after.status is 4 removes the document, and an update whose
\* after snapshot has no status upserts it with status 0.
C19_MissingStatusIs0 ==
    Dispatched
        => /\ cmd = Dispatch(binlogevent.type, WithStatus).cmd
           /\ (IsInsert /\ NoStatus(Snapshot) /\ HasName
                 /\ Key >= last_known_insert)
                 => cmd.op = "REPLACE" /\ cmd.params[6] = 0
           /\ (IsUpdate /\ NoStatus(row.before_values)
                 /\ ~NoStatus(Snapshot) /\ Snapshot["status"] = 4)
                 => cmd = remove_release_from_sphinx(Key)
           /\ (IsUpdate /\ NoStatus(Snapshot) /\ HasName)
                 => cmd.op = "REPLACE" /\ cmd.params[6] = 0

\* an update with no status in either snapshot has been written as a
\* document with status 0
C19_Witness ==
    /\ Processed /\ IsUpdate /\ HasName /\ Written
    /\ NoStatus(row.before_values) /\ NoStatus(Snapshot)
    /\ Key \in DOMAIN index
    /\ index[Key][6] = 0
\* the suffix has been delivered a second time, to its last event
Replayed == final_S # << >> /\ redelivery = << >>

\* C20: when a sequence of events has been processed and a suffix of it has
\* been delivered and processed again, in order, the index is what it was
\* when the sequence had been processed once, every write having succeeded.
C20_ReplaySafe == Replayed => index = final_S[1]

\* a removal and an insert of the same id were both delivered twice; the
\* second removal took the document away and the second insert put it back
C20_Witness ==
    /\ Replayed
    /\ Len(delivered) = 2
    /\ delivered[1].type = DeleteRowsEvent
    /\ delivered[2].type = WriteRowsEvent
    /\ delivered[1].row.values["id"] = delivered[2].row.values["id"]
    /\ consumed = 4
    /\ Written
    /\ Key \in DOMAIN index /\ index[Key] = Document(Snapshot)
====
